---- MODULE Spec2Model ----
(***************************************************************************)
(* Model of m27q.py: the MonitorControl session (a context manager around  *)
(* a USB device handle), its OSD get/set protocol and the stepped          *)
(* transition of a property.  The program is single threaded; every        *)
(* action below is one step of the one thread of control.                  *)
(***************************************************************************)
EXTENDS Integers, Sequences, FiniteSets, TLC

(***************************************************************************)
(* Bounds of the model and the inputs the caller draws from.               *)
(***************************************************************************)
\* operations the body of one `with` block issues
MaxOps == 1
\* sets the body issues before its get, in a round trip
MaxSets == 2
\* transition steps are 1..MaxStep
MaxStep == 3
\* transitions are started with |target - device value| <= MaxDiff
MaxDiff == 9

\* values the device holds when the session starts (projected per property)
InitValues == {10, 19}
\* values passed to the setters
SetValues == {-1, 10, 12, 150}
\* targets passed to transition_property
TargetValues == {1, 10, 19, 21}
\* values passed to the setters in a round trip
RoundTripValues == {-1, 10, 150}

(***************************************************************************)
(* Property classes and the registry of MonitorControl.                    *)
(***************************************************************************)
BasicProperty(minimum, maximum, message_a, message_b) ==
    [kind |-> "BasicProperty", minimum |-> minimum, maximum |-> maximum,
     message_a |-> message_a, message_b |-> message_b]

EnumProperty(allowed, message_a, message_b) ==
    [kind |-> "EnumProperty", allowed |-> allowed,
     message_a |-> message_a, message_b |-> message_b]

BRIGHTNESS == BasicProperty(0, 100, 16, 0)
CONTRAST == BasicProperty(0, 100, 18, 0)
SHARPNESS == BasicProperty(0, 100, 135, 0)
BLUE_LIGHT_REDUCTION == BasicProperty(0, 10, 224, 11)
KVM_STATUS == BasicProperty(0, 1, 224, 105)
BLACK_EQUALIZER == BasicProperty(0, 10, 224, 2)
OSD_TIMEOUT == EnumProperty({5, 10, 15, 20, 25, 30}, 224, 48)

\* the class attributes of MonitorControl, by name
Registry ==
    [n \in {"BRIGHTNESS", "CONTRAST", "SHARPNESS", "BLUE_LIGHT_REDUCTION",
            "KVM_STATUS", "BLACK_EQUALIZER", "OSD_TIMEOUT"} |->
        CASE n = "BRIGHTNESS" -> BRIGHTNESS
          [] n = "CONTRAST" -> CONTRAST
          [] n = "SHARPNESS" -> SHARPNESS
          [] n = "BLUE_LIGHT_REDUCTION" -> BLUE_LIGHT_REDUCTION
          [] n = "KVM_STATUS" -> KVM_STATUS
          [] n = "BLACK_EQUALIZER" -> BLACK_EQUALIZER
          [] n = "OSD_TIMEOUT" -> OSD_TIMEOUT]

PropertyNames == DOMAIN Registry

BasicNames == {n \in PropertyNames : Registry[n].kind = "BasicProperty"}

Min(a, b) == IF a <= b THEN a ELSE b

Max(a, b) == IF a >= b THEN a ELSE b

Abs(a) == IF a >= 0 THEN a ELSE 0 - a

\* a clamp() result: the value returned, or the exception raised
Returned(v) == [exc |-> "none", value |-> v]

Raised(e) == [exc |-> e, value |-> 0]

BasicClampNoUpper(p, v) == Returned(Max(p.minimum, v))

BasicClamp(p, v) == Returned(Max(p.minimum, Min(p.maximum, v)))

EnumClampLenient(p, v) == Returned(v)

EnumClamp(p, v) == IF v \notin p.allowed THEN Raised("Exception") ELSE Returned(v)

\* property.clamp(value): dispatch on the class of the property
clamp(p, v) == IF p.kind = "BasicProperty" THEN BasicClamp(p, v) ELSE EnumClamp(p, v)

(***************************************************************************)
(* Wire format.                                                            *)
(***************************************************************************)
\* self._usb_delay, in milliseconds
usb_delay == 50

\* bm_request_type of usb_write and of usb_read
BM_WRITE == 64

BM_READ == 192

\* index of the value in the reply, as get_osd reads it (0-based)
REPLY_INDEX == 10

\* length of the reply get_osd asks for
REPLY_LENGTH == 12

SetFrame(data) == <<110, 81, 129 + Len(data), 3>> \o data

GetFrameSetLength(data) == <<110, 81, 129 + 3, 1>> \o data

GetFrame(data) == <<110, 81, 129 + Len(data), 1>> \o data

GetArgsMajorOnly(p) == <<p.message_a>>

\* the data get_property hands to get_osd
GetArgs(p) == <<p.message_a, p.message_b>>

\* the data set_property hands to set_osd
SetArgs(p, c) == <<p.message_a, p.message_b, c>>

WriteAckedAlways(n, message) == TRUE

\* usb_write's test of the count ctrl_transfer returned
WriteAcked(n, message) == n = Len(message)

\* data[10] of the reply (sequences here are 1-based)
ReadValue(data) == data[REPLY_INDEX + 1]

\* the pending ctrl_transfer of usb_write / usb_read
WriteCall(message) ==
    [bm_request_type |-> BM_WRITE, b_request |-> 178, w_value |-> 0, w_index |-> 0,
     message |-> message]

ReadCall ==
    [bm_request_type |-> BM_READ, b_request |-> 162, w_value |-> 0, w_index |-> 111,
     msg_length |-> REPLY_LENGTH]

NoCall == [bm_request_type |-> 0]

(***************************************************************************)
(* The monitor behind ctrl_transfer: it keeps one value byte per           *)
(* (major, minor), stores the value byte of a fully transferred write      *)
(* frame, remembers the last read request, and answers a read with a       *)
(* 12-byte reply carrying the requested value at offset 10.                *)
(***************************************************************************)
Key(p) == <<p.message_a, p.message_b>>

DeviceKeys == {Key(Registry[n]) : n \in PropertyNames}

\* the value the monitor holds for a property when it last held c elsewhere
ProjectInit(p, c) ==
    IF p.kind = "BasicProperty"
    THEN Max(p.minimum, Min(p.maximum, c))
    ELSE IF c \in p.allowed THEN c
         ELSE CHOOSE a \in p.allowed : \A b \in p.allowed : Abs(a - c) <= Abs(b - c)

InitStore(c) ==
    [k \in DeviceKeys |->
        ProjectInit(Registry[CHOOSE n \in PropertyNames : Key(Registry[n]) = k], c)]

QueryKey(q) == IF Len(q) = 2 THEN q ELSE <<q[1], 0>>

DeviceValue(st, q) == IF QueryKey(q) \in DOMAIN st THEN st[QueryKey(q)] ELSE 0

DeviceReply(st, q) ==
    [i \in 1..REPLY_LENGTH |-> IF i = 11 THEN DeviceValue(st, q) ELSE 255]

\* the store after a fully transferred frame
DeviceStore(st, frame) ==
    IF frame[4] = 3 /\ Len(frame) = 7 /\ <<frame[5], frame[6]>> \in DOMAIN st
    THEN [st EXCEPT ![<<frame[5], frame[6]>>] = frame[7]]
    ELSE st

DeviceQuery(q, frame) == IF frame[4] = 1 THEN SubSeq(frame, 5, Len(frame)) ELSE q

(***************************************************************************)
(* Events recorded on the bus, and calls of set_property.                  *)
(***************************************************************************)
\* what ctrl_transfer can do with a write: take it all, take one byte less, raise
WriteOutcomes(message) ==
    {[raised |-> FALSE, n |-> Len(message)],
     [raised |-> FALSE, n |-> Len(message) - 1],
     [raised |-> TRUE, n |-> 0]}

WriteEvent(c, o) ==
    [ev |-> "write", bm_request_type |-> c.bm_request_type,
     b_request |-> c.b_request, w_value |-> c.w_value, w_index |-> c.w_index,
     message |-> c.message, raised |-> o.raised, ret |-> o.n]

ReadEvent(c, raised, reply) ==
    [ev |-> "read", bm_request_type |-> c.bm_request_type,
     b_request |-> c.b_request, w_value |-> c.w_value, w_index |-> c.w_index,
     msg_length |-> c.msg_length, raised |-> raised, ret |-> reply]

SleepEvent == [ev |-> "sleep", ms |-> usb_delay]

SetCall(name, value) == [property |-> name, value |-> value]

(***************************************************************************)
(* State.                                                                  *)
(***************************************************************************)
VARIABLES
    platform,       \* sys.platform
    devicePresent,  \* whether usb.core.find finds the device
    kernelDriver,   \* whether a kernel driver is attached to interface 0
    had_driver,     \* self._had_driver
    session,        \* position of the `with` statement
    opsDone,        \* operations the body has started
    op,             \* the operation in progress, with its arguments
    pc,             \* position inside the operation
    cont,           \* where usb_write returns to
    call,           \* the ctrl_transfer about to be issued
    current,        \* transition_property: current
    diff,           \* transition_property: diff
    step,           \* transition_property: step, signed
    data,           \* usb_read's reply
    got,            \* the value get_osd returned
    returned,       \* the operation's return value, <<>> when none
    exc,            \* the exception raised, "none" when none
    store,          \* the monitor's value per (major, minor)
    query,          \* the monitor's pending read request
    setCalls,       \* the set_property calls of the operation in progress
    bus,            \* the transfers and sleeps of the operation in progress
    lastSet         \* per property, the last set the monitor took: its argument, and
                    \* the number of the operation that issued it

sessionVars == <<platform, devicePresent, kernelDriver, had_driver, session, opsDone>>

localVars == <<current, diff, step, data, got>>

deviceVars == <<store, query, lastSet>>

opVars == <<op, pc, cont, call, returned, exc, setCalls, bus>>

vars == <<sessionVars, localVars, deviceVars, opVars>>

NoOp == [name |-> "none"]

Init ==
    /\ platform \in {"linux", "win32"}
    /\ devicePresent \in BOOLEAN
    /\ kernelDriver \in (IF platform = "win32" THEN {FALSE} ELSE BOOLEAN)
    /\ had_driver = FALSE
    /\ session = "new"
    /\ opsDone = 0
    /\ op = NoOp
    /\ pc = "idle"
    /\ cont = "none"
    /\ call = NoCall
    /\ current = 0
    /\ diff = 0
    /\ step = 0
    /\ data = <<>>
    /\ got = 0
    /\ returned = <<>>
    /\ exc = "none"
    /\ \E c \in InitValues : store = InitStore(c)
    /\ query = <<>>
    /\ setCalls = <<>>
    /\ bus = <<>>
    /\ lastSet = [n \in PropertyNames |-> <<>>]

(***************************************************************************)
(* __enter__ and __exit__, as the `with` statement runs them: an exception *)
(* raised by __enter__ leaves the statement without a call of __exit__.    *)
(***************************************************************************)
\* usb.core.find and the test of its result
Find ==
    /\ session = "new"
    /\ IF devicePresent
       THEN session' = "found" /\ UNCHANGED exc
       ELSE session' = "failed" /\ exc' = "IOError: Device not found"
    /\ UNCHANGED <<platform, devicePresent, kernelDriver, had_driver, opsDone>>
    /\ UNCHANGED <<localVars, deviceVars, op, pc, cont, call, returned, setCalls, bus>>

\* self._had_driver = False and the detach of the kernel driver
DetachKernelDriver ==
    /\ session = "found"
    /\ \/ /\ platform # "win32" /\ kernelDriver
          /\ \/ /\ kernelDriver' = FALSE
                /\ had_driver' = TRUE
                /\ session' = "detached"
                /\ UNCHANGED exc
             \/ /\ had_driver' = FALSE
                /\ session' = "failed"
                /\ exc' = "USBError"
                /\ UNCHANGED kernelDriver
       \/ /\ ~(platform # "win32" /\ kernelDriver)
          /\ had_driver' = FALSE
          /\ session' = "detached"
          /\ UNCHANGED <<kernelDriver, exc>>
    /\ UNCHANGED <<platform, devicePresent, opsDone>>
    /\ UNCHANGED <<localVars, deviceVars, op, pc, cont, call, returned, setCalls, bus>>

\* self._dev.set_configuration(1); return self
SetConfiguration ==
    /\ session = "detached"
    /\ \/ session' = "open" /\ UNCHANGED exc
       \/ session' = "failed" /\ exc' = "USBError"
    /\ UNCHANGED <<platform, devicePresent, kernelDriver, had_driver, opsDone>>
    /\ UNCHANGED <<localVars, deviceVars, op, pc, cont, call, returned, setCalls, bus>>

\* the body is left, normally or by an exception, and __exit__ runs
Exit ==
    /\ session = "open"
    /\ pc \in {"idle", "returned", "raised"}
    /\ kernelDriver' = (IF had_driver THEN TRUE ELSE kernelDriver)
    /\ session' = "closed"
    /\ UNCHANGED <<platform, devicePresent, had_driver, opsDone>>
    /\ UNCHANGED <<localVars, deviceVars, opVars>>

(***************************************************************************)
(* set_property and get_property, as called from an operation.             *)
(***************************************************************************)
\* set_property(property, value), returning to k: clamp, then set_osd's usb_write
CallSetProperty(name, value, k, calls) ==
    LET p == Registry[name]
        c == clamp(p, value)
    IN /\ setCalls' = Append(calls, SetCall(name, value))
       /\ IF c.exc # "none"
          THEN /\ pc' = "raised"
               /\ exc' = c.exc
               /\ cont' = "none"
               /\ call' = NoCall
          ELSE /\ pc' = "usb_write"
               /\ exc' = "none"
               /\ cont' = k
               /\ call' = WriteCall(SetFrame(SetArgs(p, c.value)))

\* get_property(property): get_osd's usb_write, then its usb_read
CallGetProperty(name) ==
    /\ pc' = "usb_write"
    /\ exc' = "none"
    /\ cont' = "usb_read"
    /\ call' = WriteCall(GetFrame(GetArgs(Registry[name])))

\* the body of the `with` statement calls a method: its locals start afresh
Start(o) ==
    /\ session = "open"
    /\ pc \in {"idle", "returned"}
    /\ op' = o
    /\ opsDone' = opsDone + 1
    /\ returned' = <<>>
    /\ bus' = <<>>
    /\ current' = 0
    /\ diff' = 0
    /\ step' = 0
    /\ data' = <<>>
    /\ got' = 0
    /\ UNCHANGED <<platform, devicePresent, kernelDriver, had_driver, session>>
    /\ UNCHANGED deviceVars

\* an attribute of MonitorControl that is not defined
AttributeError(o) ==
    /\ Start(o)
    /\ pc' = "raised"
    /\ exc' = "AttributeError"
    /\ cont' = "none"
    /\ call' = NoCall
    /\ setCalls' = <<>>

set_property(name, value) ==
    /\ Start([name |-> "set_property", property |-> name, value |-> value])
    /\ CallSetProperty(name, value, "return", <<>>)

get_property(name) ==
    /\ Start([name |-> "get_property", property |-> name])
    /\ CallGetProperty(name)
    /\ setCalls' = <<>>

transition_property(name, target, s) ==
    /\ Start([name |-> "transition_property", property |-> name,
              target |-> target, step |-> s])
    /\ CallGetProperty(name)
    /\ setCalls' = <<>>

toggle_kvm ==
    /\ Start([name |-> "toggle_kvm", property |-> "KVM_STATUS"])
    /\ CallGetProperty("KVM_STATUS")
    /\ setCalls' = <<>>

set_volume(volume) ==
    IF "VOLUME" \in DOMAIN Registry
    THEN /\ Start([name |-> "set_volume", property |-> "VOLUME", value |-> volume])
         /\ CallSetProperty("VOLUME", volume, "return", <<>>)
    ELSE AttributeError([name |-> "set_volume", property |-> "VOLUME", value |-> volume])

get_volume ==
    IF "VOLUME" \in DOMAIN Registry
    THEN /\ Start([name |-> "get_volume", property |-> "VOLUME"])
         /\ CallGetProperty("VOLUME")
         /\ setCalls' = <<>>
    ELSE AttributeError([name |-> "get_volume", property |-> "VOLUME"])

(***************************************************************************)
(* usb_write and usb_read.                                                 *)
(***************************************************************************)
\* ctrl_transfer of usb_write and the test of the count it returns
UsbWrite ==
    /\ pc = "usb_write"
    /\ \E o \in WriteOutcomes(call.message) :
        /\ bus' = Append(bus, WriteEvent(call, o))
        /\ IF ~o.raised /\ o.n = Len(call.message)
           THEN /\ store' = DeviceStore(store, call.message)
                /\ query' = DeviceQuery(query, call.message)
                /\ lastSet' = IF call.message[4] = 3
                              THEN [lastSet EXCEPT ![setCalls[Len(setCalls)].property] =
                                        <<[value |-> setCalls[Len(setCalls)].value,
                                           at |-> opsDone]>>]
                              ELSE lastSet
           ELSE UNCHANGED deviceVars
        /\ IF o.raised
           THEN pc' = "raised" /\ exc' = "USBError"
           ELSE IF ~WriteAcked(o.n, call.message)
                THEN pc' = "raised" /\ exc' = "IOError: Transferred message length mismatch"
                ELSE pc' = "usb_write_sleep" /\ UNCHANGED exc
    /\ UNCHANGED <<sessionVars, localVars, op, cont, call, returned, setCalls>>

\* sleep(self._usb_delay) of usb_write, and the return to its caller
UsbWriteSleep ==
    /\ pc = "usb_write_sleep"
    /\ bus' = Append(bus, SleepEvent)
    /\ pc' = (IF cont = "return" THEN "returned" ELSE cont)
    /\ call' = (IF cont = "usb_read" THEN ReadCall ELSE NoCall)
    /\ cont' = "none"
    /\ UNCHANGED <<sessionVars, localVars, deviceVars, op, returned, exc, setCalls>>

\* ctrl_transfer of usb_read
UsbRead ==
    /\ pc = "usb_read"
    /\ \/ /\ data' = DeviceReply(store, query)
          /\ query' = <<>>
          /\ bus' = Append(bus, ReadEvent(call, FALSE, data'))
          /\ pc' = "usb_read_sleep"
          /\ UNCHANGED exc
       \/ /\ bus' = Append(bus, ReadEvent(call, TRUE, <<>>))
          /\ pc' = "raised"
          /\ exc' = "USBError"
          /\ UNCHANGED <<data, query>>
    /\ UNCHANGED <<sessionVars, store, lastSet, current, diff, step, got>>
    /\ UNCHANGED <<op, cont, call, returned, setCalls>>

\* sleep(self._usb_delay) of usb_read; get_osd returns data[10]
UsbReadSleep ==
    /\ pc = "usb_read_sleep"
    /\ bus' = Append(bus, SleepEvent)
    /\ got' = ReadValue(data)
    /\ pc' = "got"
    /\ call' = NoCall
    /\ UNCHANGED <<sessionVars, deviceVars, current, diff, step, data>>
    /\ UNCHANGED <<op, cont, returned, exc, setCalls>>

\* get_property returns to the caller
GetReturn ==
    /\ pc = "got"
    /\ op.name \in {"get_property", "get_volume"}
    /\ returned' = <<got>>
    /\ pc' = "returned"
    /\ UNCHANGED <<sessionVars, localVars, deviceVars>>
    /\ UNCHANGED <<op, cont, call, exc, setCalls, bus>>

\* toggle_kvm: self.set_kvm_status(1 - self.get_kvm_status())
ToggleSet ==
    /\ pc = "got"
    /\ op.name = "toggle_kvm"
    /\ CallSetProperty("KVM_STATUS", 1 - got, "return", setCalls)
    /\ UNCHANGED <<sessionVars, localVars, deviceVars, op, returned, bus>>

(***************************************************************************)
(* transition_property.                                                    *)
(***************************************************************************)
SignedStepUp(c, target, s) == s

\* the sign given to step
SignedStep(c, target, s) == IF c <= target THEN 1 * s ELSE (0 - 1) * s

\* the test of the while loop
LoopCond(d, s) == d >= Abs(s)

NeedsFinalAlways(c, target) == TRUE

\* the test before the last set
NeedsFinal(c, target) == c # target

\* current = get_property(property); diff; the sign of step
TransitionInit ==
    /\ pc = "got"
    /\ op.name = "transition_property"
    /\ current' = got
    /\ diff' = Abs(op.target - got)
    /\ step' = SignedStep(got, op.target, op.step)
    /\ pc' = "while"
    /\ UNCHANGED <<sessionVars, deviceVars, data, got>>
    /\ UNCHANGED <<op, cont, call, returned, exc, setCalls, bus>>

\* the loop test; in the loop, current += step and set_property(property, current)
TransitionWhile ==
    /\ pc = "while"
    /\ IF LoopCond(diff, step)
       THEN /\ current' = current + step
            /\ CallSetProperty(op.property, current', "dec", setCalls)
       ELSE /\ pc' = "last"
            /\ UNCHANGED <<current, cont, call, exc, setCalls>>
    /\ UNCHANGED <<sessionVars, deviceVars, diff, step, data, got>>
    /\ UNCHANGED <<op, returned, bus>>

\* diff -= abs(step)
TransitionDec ==
    /\ pc = "dec"
    /\ diff' = diff - Abs(step)
    /\ pc' = "while"
    /\ UNCHANGED <<sessionVars, deviceVars, current, step, data, got>>
    /\ UNCHANGED <<op, cont, call, returned, exc, setCalls, bus>>

\* if current != target: set_property(property, target)
TransitionLast ==
    /\ pc = "last"
    /\ IF NeedsFinal(current, op.target)
       THEN CallSetProperty(op.property, op.target, "return", setCalls)
       ELSE /\ pc' = "returned"
            /\ UNCHANGED <<cont, call, exc, setCalls>>
    /\ UNCHANGED <<sessionVars, localVars, deviceVars, op, returned, bus>>

(***************************************************************************)
(* The specification.                                                      *)
(***************************************************************************)
Steps == 1..MaxStep

\* the properties the body transitions (transition_property takes a BasicProperty)
TransitionNames == BasicNames

\* the targets a transition of the named property is started with
Targets(name) ==
    {t \in TargetValues : Abs(t - store[Key(Registry[name])]) <= MaxDiff}

Enter ==
    \/ Find
    \/ DetachKernelDriver
    \/ SetConfiguration

Run ==
    \/ UsbWrite
    \/ UsbWriteSleep
    \/ UsbRead
    \/ UsbReadSleep
    \/ GetReturn
    \/ ToggleSet
    \/ TransitionInit
    \/ TransitionWhile
    \/ TransitionDec
    \/ TransitionLast

\* a body of at most MaxOps calls of any method
Next ==
    \/ Enter
    \/ Exit
    \/ /\ opsDone < MaxOps
       /\ \/ \E n \in PropertyNames, v \in SetValues : set_property(n, v)
          \/ \E n \in PropertyNames : get_property(n)
          \/ \E n \in TransitionNames : \E t \in Targets(n), s \in Steps :
                transition_property(n, t, s)
          \/ toggle_kvm
          \/ \E v \in SetValues : set_volume(v)
          \/ get_volume
    \/ Run

Spec == Init /\ [][Next]_vars

\* a body of at most MaxSets sets followed by one get
NextRoundTrip ==
    \/ Enter
    \/ Exit
    \/ /\ op.name \in {"none", "set_property"}
       /\ \/ /\ opsDone < MaxSets
             /\ \E n \in PropertyNames, v \in RoundTripValues : set_property(n, v)
          \/ \E n \in PropertyNames : get_property(n)
    \/ UsbWrite
    \/ UsbWriteSleep
    \/ UsbRead
    \/ UsbReadSleep
    \/ GetReturn

SpecRoundTrip == Init /\ [][NextRoundTrip]_vars

(***************************************************************************)
(* Properties.                                                             *)
(***************************************************************************)
IsTransfer(e) == e.ev \in {"write", "read"}

IsShortWrite(e) == e.ev = "write" /\ ~e.raised /\ e.ret # Len(e.message)

IsFailedWrite(e) == e.ev = "write" /\ (e.raised \/ e.ret # Len(e.message))

IsSetFrame(e) == e.ev = "write" /\ e.message[4] = 3

\* the replies read in the operation in progress
Replies == SelectSeq(bus, LAMBDA e : e.ev = "read" /\ ~e.raised)

\* the value transition_property read first: byte 10 of the first reply
InitialValue == Replies[1].ret[11]

\* the value of the i-th set call, and the value before it
CallValue(i) == setCalls[i].value

PrevValue(i) == IF i = 1 THEN InitialValue ELSE setCalls[i - 1].value

SessionOver == session \in {"closed", "failed"}

OpOver == pc \in {"returned", "raised"}

\* C1: whenever open detached the kernel driver (which is when it sets
\* _had_driver), the driver is attached again once the session has ended,
\* whether open failed after the detach, an operation failed, or the body
\* ended normally.
C1_DriverReattached == (SessionOver /\ had_driver) => kernelDriver

\* C2: in a transition the values of the set calls move towards the target,
\* never past it; every call but the last differs from the one before (the
\* first from the value read) by exactly step, the last by at most step; and
\* when the transition returns after at least one call, the last call's
\* value is the target.
C2_TransitionMonotone ==
    (op.name = "transition_property" /\ Len(setCalls) > 0) =>
        /\ \A i \in 1..Len(setCalls) :
            /\ InitialValue <= op.target =>
                    PrevValue(i) < CallValue(i) /\ CallValue(i) <= op.target
            /\ InitialValue > op.target =>
                    PrevValue(i) > CallValue(i) /\ CallValue(i) >= op.target
            /\ Abs(CallValue(i) - PrevValue(i)) <= op.step
            /\ i < Len(setCalls) => Abs(CallValue(i) - PrevValue(i)) = op.step
        /\ pc = "returned" => CallValue(Len(setCalls)) = op.target

\* a downward transition that returned after three calls or more, the last
\* one shorter than step
C2_Witness ==
    /\ op.name = "transition_property"
    /\ pc = "returned"
    /\ Len(setCalls) >= 3
    /\ InitialValue > op.target
    /\ Abs(CallValue(Len(setCalls)) - PrevValue(Len(setCalls))) < op.step

\* C3: a write acknowledged with a count other than the payload length is
\* the last transfer of its operation, which ends with the length-mismatch
\* IOError; inside a transition the monitor then holds the value of the last
\* acknowledged set (the value read, when no set was acknowledged).
C3_ShortWriteStops ==
    \A i \in 1..Len(bus) :
        IsShortWrite(bus[i]) =>
            /\ i = Len(bus)
            /\ pc = "raised"
            /\ exc = "IOError: Transferred message length mismatch"
            /\ (op.name = "transition_property" /\ Len(Replies) > 0) =>
                    LET acked == {j \in 1..(i - 1) : IsSetFrame(bus[j])}
                        held == store[Key(Registry[op.property])]
                    IN IF acked = {}
                       THEN held = InitialValue
                       ELSE held = bus[CHOOSE j \in acked : \A k \in acked : k <= j].message[7]

\* a transition stopped by a short write after an acknowledged set
C3_Witness ==
    /\ op.name = "transition_property"
    /\ pc = "raised"
    /\ Len(setCalls) >= 2
    /\ IsShortWrite(bus[Len(bus)])
    /\ store[Key(Registry[op.property])] = setCalls[Len(setCalls) - 1].value

\* C4: set_property on a range property issues one write transfer, with
\* payload [0x6E, 0x51, 0x84, 0x03, major, minor, c] where
\* c = min(maximum, max(minimum, v)) lies in the range, and reads no reply;
\* set(Brightness, 150) transmits 100.
C4_SetClamped ==
    (op.name = "set_property" /\ Registry[op.property].kind = "BasicProperty") =>
        LET p == Registry[op.property]
            c == Min(p.maximum, Max(p.minimum, op.value))
            writes == {i \in 1..Len(bus) : bus[i].ev = "write"}
        IN /\ \A i \in 1..Len(bus) : bus[i].ev # "read"
           /\ Cardinality(writes) <= 1
           /\ pc # "usb_write" =>
                /\ writes = {1}
                /\ bus[1].bm_request_type = 64
                /\ bus[1].b_request = 178
                /\ bus[1].w_value = 0
                /\ bus[1].w_index = 0
                /\ bus[1].message = <<110, 81, 132, 3, p.message_a, p.message_b, c>>
                /\ bus[1].message[7] \in p.minimum..p.maximum
           /\ (op.property = "BRIGHTNESS" /\ op.value = 150 /\ pc # "usb_write") =>
                bus[1].message = <<110, 81, 132, 3, 16, 0, 100>>
           /\ pc = "returned" => Len(bus) = 2 /\ bus[2].ev = "sleep"

\* set(Brightness, 150) returned
C4_Witness ==
    /\ op.name = "set_property"
    /\ op.property = "BRIGHTNESS"
    /\ op.value = 150
    /\ pc = "returned"
    /\ bus[1].message[7] = 100

\* C5: set_property on the OSD timeout with a value outside
\* {5, 10, 15, 20, 25, 30} raises before any transfer; with a value inside,
\* the value is transmitted as it is.
C5_EnumRejected ==
    (op.name = "set_property" /\ Registry[op.property].kind = "EnumProperty") =>
        IF op.value \notin {5, 10, 15, 20, 25, 30}
        THEN /\ pc = "raised"
             /\ exc = "Exception"
             /\ bus = <<>>
             /\ lastSet[op.property] = <<>> \/ lastSet[op.property][1].at < opsDone
        ELSE /\ exc # "Exception"
             /\ pc # "usb_write" =>
                    /\ bus[1].ev = "write"
                    /\ bus[1].message = <<110, 81, 132, 3, 224, 48, op.value>>

\* set(OSDTimeout, 12) raised with nothing transferred
C5_Witness ==
    /\ op.name = "set_property"
    /\ op.property = "OSD_TIMEOUT"
    /\ op.value = 12
    /\ pc = "raised"
    /\ exc = "Exception"
    /\ bus = <<>>

\* C6: Volume is in the registry with major 0x62, minor 0x00 and range
\* 0..100: set_volume(v) transmits [0x6E, 0x51, 0x84, 0x03, 0x62, 0x00, c]
\* with c the value clamped into 0..100, and get_volume() transmits the read
\* request [0x6E, 0x51, 0x83, 0x01, 0x62, 0x00].
C6_VolumeRegistered ==
    /\ (op.name = "set_volume" /\ OpOver) =>
        /\ Len(bus) > 0
        /\ bus[1].ev = "write"
        /\ bus[1].message = <<110, 81, 132, 3, 98, 0, Min(100, Max(0, op.value))>>
    /\ (op.name = "get_volume" /\ OpOver) =>
        /\ Len(bus) > 0
        /\ bus[1].ev = "write"
        /\ bus[1].message = <<110, 81, 131, 1, 98, 0>>

\* C7: when control is back at the caller, every transfer of the operation
\* was followed by the 50 ms sleep, whether it completed or failed.
C7_EveryTransferPaced ==
    OpOver =>
        \A i \in 1..Len(bus) :
            IsTransfer(bus[i]) =>
                i < Len(bus) /\ bus[i + 1] = [ev |-> "sleep", ms |-> 50]

\* C8: a get of a property returns the clamped argument of the last set of
\* that property the monitor took, whatever was set on other properties in
\* between.
C8_RoundTrip ==
    (op.name = "get_property" /\ pc = "returned" /\ lastSet[op.property] # <<>>) =>
        LET p == Registry[op.property]
            v == lastSet[op.property][1].value
        IN returned = <<IF p.kind = "BasicProperty"
                        THEN Min(p.maximum, Max(p.minimum, v))
                        ELSE v>>

\* a get that returned the clamped value of a set after which another
\* property was set
C8_Witness ==
    /\ op.name = "get_property"
    /\ pc = "returned"
    /\ lastSet[op.property] # <<>>
    /\ lastSet[op.property][1].value = 150
    /\ returned = <<10>>
    /\ \E n \in PropertyNames \ {op.property} :
        /\ lastSet[n] # <<>>
        /\ lastSet[n][1].at > lastSet[op.property][1].at

\* C9: a transition that returns has read the value once and has issued
\* ceil(|t - c| / s) set calls: floor(|t - c| / s) stepped ones, then one
\* set(t) only when |t - c| is no multiple of s; none when c = t; and
\* 13, 16, 19 for c = 10, t = 19, s = 3.
C9_TransitionCount ==
    (op.name = "transition_property" /\ Len(Replies) > 0) =>
        LET c == InitialValue
            t == op.target
            s == op.step
            d == Abs(t - c)
            sign == IF c <= t THEN 1 ELSE 0 - 1
            reads == {i \in 1..Len(bus) : bus[i].ev = "read"}
        IN /\ Cardinality(reads) = 1
           /\ Len(setCalls) <= (d + s - 1) \div s
           /\ \A i \in 1..Len(setCalls) :
                IF i <= d \div s
                THEN CallValue(i) = c + sign * i * s
                ELSE d % s # 0 /\ CallValue(i) = t
           /\ pc = "returned" =>
                /\ Len(setCalls) = (d + s - 1) \div s
                /\ Len(setCalls) = (d \div s) + (IF d % s = 0 THEN 0 ELSE 1)
                /\ c = t => setCalls = <<>>
                /\ (c = 10 /\ t = 19 /\ s = 3) =>
                        [i \in 1..Len(setCalls) |-> CallValue(i)] = <<13, 16, 19>>

\* transition(current = 10, target = 19, step = 3) returned
C9_Witness ==
    /\ op.name = "transition_property"
    /\ pc = "returned"
    /\ op.target = 19
    /\ op.step = 3
    /\ InitialValue = 10
    /\ Len(setCalls) = 3

\* C10: a get that returns has issued one write (request 178, wValue 0,
\* wIndex 0) of [0x6E, 0x51, 0x83, 0x01, major, minor], slept, issued one read
\* (request 162, wValue 0, wIndex 111, length 12), slept, and returns byte 10
\* of the reply; a read is only ever issued right after the sleep that
\* follows a fully acknowledged write, and never after a failed write.
C10_GetOrder ==
    /\ (op.name = "get_property" /\ pc = "returned") =>
        LET p == Registry[op.property]
        IN /\ Len(bus) = 4
           /\ bus[1] = [ev |-> "write", bm_request_type |-> 64, b_request |-> 178,
                        w_value |-> 0, w_index |-> 0,
                        message |-> <<110, 81, 129 + 2, 1, p.message_a, p.message_b>>,
                        raised |-> FALSE, ret |-> 6]
           /\ bus[2] = [ev |-> "sleep", ms |-> 50]
           /\ bus[3].ev = "read"
           /\ bus[3].bm_request_type = 192
           /\ bus[3].b_request = 162
           /\ bus[3].w_value = 0
           /\ bus[3].w_index = 111
           /\ bus[3].msg_length = 12
           /\ ~bus[3].raised
           /\ Len(bus[3].ret) = 12
           /\ bus[4] = [ev |-> "sleep", ms |-> 50]
           /\ returned = <<bus[3].ret[11]>>
    /\ \A i \in 1..Len(bus) :
        /\ bus[i].ev = "read" =>
            /\ i >= 3
            /\ bus[i - 2].ev = "write"
            /\ ~IsFailedWrite(bus[i - 2])
            /\ bus[i - 1].ev = "sleep"
        /\ IsFailedWrite(bus[i]) => \A j \in (i + 1)..Len(bus) : bus[j].ev # "read"

\* get(Brightness) returned the monitor's value
C10_Witness ==
    /\ op.name = "get_property"
    /\ op.property = "BRIGHTNESS"
    /\ pc = "returned"
    /\ Len(bus) = 4
    /\ returned = <<store[<<16, 0>>]>>

====
